---- MODULE Spec2Model ----
(***************************************************************************)
(* Model of the rich-markdown-editor component layer:                      *)
(*   - lib/ClickOutside.tsx       the click-outside detector               *)
(*   - index.tsx (part_000)       RichMarkdownEditor: init, props updates, *)
(*                                dispatchTransaction, getHeadings         *)
(*   - nodes/Embed.tsx            key handling of the embed node view      *)
(*   - nodes/Image.tsx (part_001) upload plugin and markdown (de)serialise *)
(* The host editing toolkit is modelled only as far as the component layer  *)
(* observes it: a document is a sequence of block nodes, a transaction is   *)
(* the document and selection it produces.                                  *)
(***************************************************************************)
EXTENDS Integers, Sequences, FiniteSets, TLC

VARIABLES
    \* ---- ClickOutside ----
    mountedC,     \* the component is mounted
    ready,        \* useState(false): set by the setTimeout of the first effect
    attached,     \* the document listeners are attached
    insideRef,    \* insideRef.current
    press,        \* where the press in progress went down: "none", "inside", "outside"
    clickLast,    \* the last pointer event and what the component did for it
    events,       \* number of pointer events so far
    \* ---- RichMarkdownEditor ----
    props,        \* this.props: value, readOnly, autoFocus
    fields,       \* the editor fields assigned so far (element, extensions, ...)
    pc,           \* position in componentDidMount: index of the next step of init()
    observedUnset,\* <<step, field>> pairs: a step of init() read a field not yet assigned
    viewState,    \* this.view.state: doc and selection
    viewEditable, \* this.view.props.editable: the closure installed
    focused,      \* the view has focus
    last,         \* the last operation and what it did
    headings,     \* the list returned by the last getHeadings call
    \* ---- Image: markdown round trip ----
    imgPhase,     \* "node", "written" (toMarkdown ran) or "parsed" (parseMarkdown ran)
    imgNode,      \* the image node's attrs: src and alt
    imgText,      \* the characters toMarkdown wrote
    imgParsed     \* the attrs parseMarkdown's getAttrs returned

varsC == <<mountedC, ready, attached, insideRef, press, clickLast, events>>

varsE == <<props, fields, pc, observedUnset, viewState, viewEditable, focused,
           last, headings>>

varsI == <<imgPhase, imgNode, imgText, imgParsed>>

vars == <<mountedC, ready, attached, insideRef, press, clickLast, events,
          props, fields, pc, observedUnset, viewState, viewEditable, focused,
          last, headings, imgPhase, imgNode, imgText, imgParsed>>

\* Bound on the number of pointer events of a run.
MaxEvents == 5

Targets == {"inside", "outside"}

(***************************************************************************)
(* ClickOutside                                                            *)
(***************************************************************************)

\* ref.current?.contains(e.target): the ref is set while mounted.
Contains(target) == target = "inside"

NoEvent == [type |-> "none", target |-> "none", origin |-> "none",
            heard |-> FALSE, invoked |-> 0]

InitC ==
    /\ mountedC = TRUE
    /\ ready = FALSE
    /\ attached = FALSE
    /\ insideRef = FALSE
    /\ press = "none"
    /\ clickLast = NoEvent
    /\ events = 0

\* setTimeout(() => setReady(true))
ReadyTimer ==
    /\ mountedC /\ ~ready
    /\ ready' = TRUE
    /\ UNCHANGED <<mountedC, attached, insideRef, press, clickLast, events>>
    /\ UNCHANGED <<varsE, varsI>>

\* the effect keyed on [ready]: attaches both listeners once ready
AttachListeners ==
    /\ mountedC /\ ready /\ ~attached
    /\ attached' = TRUE
    /\ UNCHANGED <<mountedC, ready, insideRef, press, clickLast, events>>
    /\ UNCHANGED <<varsE, varsI>>

\* the effect's cleanup on unmount
Unmount ==
    /\ mountedC
    /\ mountedC' = FALSE
    /\ attached' = FALSE
    /\ UNCHANGED <<ready, insideRef, press, clickLast, events>>
    /\ UNCHANGED <<varsE, varsI>>

\* handlePointerDown, when the listener is attached
HandlePointerDown(target) == Contains(target)

\* Mutant: the press-down flag is read the wrong way round.
HandlePointerUpInverted(inside, target) ==
    IF inside /\ ~Contains(target) THEN 1 ELSE 0

\* handlePointerUp, when the listener is attached: number of onClickOutside calls
HandlePointerUp(inside, target) ==
    IF ~inside /\ ~Contains(target) THEN 1 ELSE 0

\* a pointerdown anywhere in the document
PointerDown(target) ==
    /\ press = "none"
    /\ events < MaxEvents
    /\ press' = target
    /\ insideRef' = IF attached THEN HandlePointerDown(target) ELSE insideRef
    /\ clickLast' = [type |-> "down", target |-> target, origin |-> target,
                     heard |-> attached, invoked |-> 0]
    /\ events' = events + 1
    /\ UNCHANGED <<mountedC, ready, attached>>
    /\ UNCHANGED <<varsE, varsI>>

\* the pointerup that ends the press in progress
PointerUp(target) ==
    /\ press # "none"
    /\ events < MaxEvents
    /\ press' = "none"
    /\ clickLast' = [type |-> "up", target |-> target, origin |-> press,
                     heard |-> attached,
                     invoked |-> IF attached
                                 THEN HandlePointerUp(insideRef, target) ELSE 0]
    /\ events' = events + 1
    /\ UNCHANGED <<mountedC, ready, attached, insideRef>>
    /\ UNCHANGED <<varsE, varsI>>

NextClick ==
    \/ ReadyTimer
    \/ AttachListeners
    \/ Unmount
    \/ \E t \in Targets : PointerDown(t)
    \/ \E t \in Targets : PointerUp(t)

(***************************************************************************)
(* Documents, positions, markdown values                                   *)
(***************************************************************************)

\* Bound on the number of block nodes of a document.
MaxDoc == 2
\* Bound on the number of transactions plugins append to one dispatch.
MaxAppended == 1
\* Bound on the number of files a paste or drop event carries.
MaxFiles == 1

SeqsUpTo(S, n) == UNION {[1..k -> S] : k \in 0..n}

RECURSIVE SumTo(_, _)
SumTo(f, n) == IF n = 0 THEN 0 ELSE f[n] + SumTo(f, n - 1)

\* Block nodes: text is the sequence of characters of the node's inline content.
EmptyParagraph == [type |-> "paragraph", text |-> <<>>]
EmbedNode == [type |-> "embed", text |-> <<>>]
HeadingNode(text) == [type |-> "heading", text |-> text]

\* node.nodeSize of a block node with text content
NodeSize(node) == 2 + Len(node.text)

\* position just before the i-th block of the document
PosBefore(doc, i) == SumTo([j \in 1..Len(doc) |-> NodeSize(doc[j])], i - 1)

\* doc.content.size
DocSize(doc) == PosBefore(doc, Len(doc) + 1)

\* index of the block that holds position pos strictly inside it
BlockIndexAt(doc, pos) ==
    CHOOSE i \in 1..Len(doc) :
        PosBefore(doc, i) < pos /\ pos < PosBefore(doc, i) + NodeSize(doc[i])

TextSelection(pos) == [kind |-> "text", anchor |-> pos]
NodeSelection(pos) == [kind |-> "node", anchor |-> pos]

\* Selection.atStart(doc), Selection.atEnd(doc): every block here is a textblock
AtStart(doc) == TextSelection(1)
AtEnd(doc) == TextSelection(DocSize(doc) - 1)

\* Lines of markdown source the value prop is made of.
MdLines == {"# a", "t"}

\* A string-valued prop that may be left out: def = FALSE is undefined.
Undefined == [def |-> FALSE, md |-> <<>>]
Str(md) == [def |-> TRUE, md |-> md]
\* The values the value prop takes: undefined, "", and one-line documents.
PropValues == {Undefined, Str(<<>>)} \cup {Str(<<line>>) : line \in MdLines}

\* JavaScript truthiness of an optional string: undefined and "" are falsy
Truthy(v) == v.def /\ v.md # <<>>

\* static defaultProps: defaultValue ""
DefaultValue == Str(<<>>)

ParseLine(line) ==
    IF line = "# a" THEN HeadingNode(<<"a">>)
    ELSE [type |-> "paragraph", text |-> <<"t">>]

\* this.parser.parse(content): one block per line; a document has at least one
\* block, so empty content parses to a single empty paragraph
Parse(md) ==
    IF md = <<>> THEN <<EmptyParagraph>>
    ELSE [i \in 1..Len(md) |-> ParseLine(md[i])]

\* createDocument(content)
CreateDocument(content) == Parse(content.md)

\* Mutant: the value argument is dropped, as in a call createState().
CreateStateNoValue(value) ==
    [doc |-> CreateDocument(DefaultValue), sel |-> AtStart(CreateDocument(DefaultValue))]

\* createState(value): the document of value || defaultValue, a fresh selection
CreateState(value) ==
    LET doc == CreateDocument(IF Truthy(value) THEN value ELSE DefaultValue)
    IN  [doc |-> doc, sel |-> AtStart(doc)]

NoState == [doc |-> <<>>, sel |-> TextSelection(0)]

(***************************************************************************)
(* init(): the steps of componentDidMount                                  *)
(***************************************************************************)

\* Mutant: the keymaps are created before the schema.
InitOrderKeymapsFirst ==
    << "createExtensions", "createNodes", "createMarks", "createKeymaps",
       "createPlugins", "createSchema", "createSerializer", "createParser",
       "createInputRules", "createNodeViews", "createView", "createCommands" >>

\* the order in which init() runs its steps
InitOrder ==
    << "createExtensions", "createNodes", "createMarks", "createSchema",
       "createPlugins", "createKeymaps", "createSerializer", "createParser",
       "createInputRules", "createNodeViews", "createView", "createCommands" >>

\* the editor field each step assigns
Assigns(step) ==
    CASE step = "createExtensions" -> "extensions"
      [] step = "createNodes"      -> "nodes"
      [] step = "createMarks"      -> "marks"
      [] step = "createSchema"     -> "schema"
      [] step = "createPlugins"    -> "plugins"
      [] step = "createKeymaps"    -> "keymaps"
      [] step = "createSerializer" -> "serializer"
      [] step = "createParser"     -> "parser"
      [] step = "createInputRules" -> "inputRules"
      [] step = "createNodeViews"  -> "nodeViews"
      [] step = "createView"       -> "view"
      [] step = "createCommands"   -> "commands"

\* the editor fields each step reads (createView reads those of createState and
\* createDocument too, which it calls)
Reads(step) ==
    CASE step = "createExtensions" -> {}
      [] step = "createNodes"      -> {"extensions"}
      [] step = "createMarks"      -> {"extensions"}
      [] step = "createSchema"     -> {"nodes", "marks"}
      [] step = "createPlugins"    -> {"extensions"}
      [] step = "createKeymaps"    -> {"extensions", "schema"}
      [] step = "createSerializer" -> {"extensions"}
      [] step = "createParser"     -> {"extensions", "schema"}
      [] step = "createInputRules" -> {"extensions", "schema"}
      [] step = "createNodeViews"  -> {"extensions"}
      [] step = "createView"       -> {"element", "nodeViews", "parser", "schema",
                                       "plugins", "keymaps", "inputRules"}
      [] step = "createCommands"   -> {"extensions", "schema", "view"}

Mounted == pc > Len(InitOrder) + 1

\* the editable prop createView installs: () => !this.props.readOnly, a closure
\* that reads this.props when called
CreateViewEditable(readOnlyNow) == [live |-> TRUE, val |-> ~readOnlyNow]

\* the result of view.props.editable(view.state)
Editable == IF viewEditable.live THEN ~props.readOnly ELSE viewEditable.val

NoClosure == [live |-> FALSE, val |-> FALSE]

NoProps == [value |-> Undefined, readOnly |-> FALSE, autoFocus |-> FALSE]

NoTr == [before |-> <<>>, doc |-> <<>>, sel |-> TextSelection(0), steps |-> <<>>]

\* What the last operation did: the state componentDidUpdate created, what each
\* dispatch did (changed: docChanged of each transaction applied; handled: calls
\* of handleChange; notified: calls of props.onChange), the transaction a key-up
\* dispatched, the handler's return value and its calls of insertFiles.
NoOp == [op |-> "none", key |-> "none", index |-> 0,
         prev |-> NoProps, updated |-> FALSE, created |-> NoState,
         dispatches |-> <<>>, tr |-> NoTr, focus |-> FALSE,
         inserted |-> 0, ret |-> "none"]

InitE ==
    /\ props \in [value : PropValues, readOnly : BOOLEAN, autoFocus : BOOLEAN]
    /\ fields = {"element"}
    /\ pc = 1
    /\ observedUnset = {}
    /\ viewState = NoState
    /\ viewEditable = NoClosure
    /\ focused = FALSE
    /\ last = NoOp
    /\ headings = <<>>

\* one step of init(); createView builds the view on createState() and installs
\* the editable closure
InitStep ==
    /\ pc <= Len(InitOrder)
    /\ LET step == InitOrder[pc]
       IN  /\ observedUnset' = observedUnset \cup
                  {<<step, f>> : f \in Reads(step) \ fields}
           /\ fields' = fields \cup {Assigns(step)}
           /\ IF step = "createView"
              THEN /\ viewState' = CreateState(Undefined)
                   /\ viewEditable' = CreateViewEditable(props.readOnly)
              ELSE UNCHANGED <<viewState, viewEditable>>
    /\ pc' = pc + 1
    /\ UNCHANGED <<props, focused, last, headings>>
    /\ UNCHANGED <<varsC, varsI>>

(***************************************************************************)
(* Transactions and dispatchTransaction                                    *)
(***************************************************************************)

InsertAt(doc, i, node) ==
    [j \in 1..(Len(doc) + 1) |->
        IF j < i THEN doc[j] ELSE IF j = i THEN node ELSE doc[j - 1]]

RemoveAt(doc, i) ==
    [j \in 1..(Len(doc) - 1) |-> IF j < i THEN doc[j] ELSE doc[j + 1]]

\* state.tr: a transaction that starts at the state's document and selection
StateTr(state) ==
    [before |-> state.doc, doc |-> state.doc, sel |-> state.sel, steps |-> <<>>]

\* tr.docChanged
DocChanged(tr) == tr.steps # <<>>

\* tr.setSelection(selection)
SetSelection(tr, sel) == [tr EXCEPT !.sel = sel]

\* index of the block a node selection selects
SelectedIndex(tr) ==
    CHOOSE i \in 1..Len(tr.doc) : PosBefore(tr.doc, i) = tr.sel.anchor

\* tr.deleteSelection() on a node selection of a top-level block: the block is
\* deleted; a document left without blocks is filled with an empty paragraph;
\* the selection ends near the place of the deletion
DeleteSelection(tr) ==
    IF tr.sel.kind # "node" THEN tr
    ELSE
      LET i == SelectedIndex(tr)
          from == PosBefore(tr.doc, i)
          to == from + NodeSize(tr.doc[i])
          rest == RemoveAt(tr.doc, i)
          doc2 == IF rest = <<>> THEN <<EmptyParagraph>> ELSE rest
          sel2 == IF i <= Len(doc2)
                  THEN TextSelection(PosBefore(doc2, i) + 1)
                  ELSE TextSelection(DocSize(doc2) - 1)
      IN  [tr EXCEPT !.doc = doc2, !.sel = sel2,
              !.steps = Append(@, [op |-> "delete", from |-> from, to |-> to])]

\* safeInsert(node)(tr) on a node selection of a block that cannot hold the node:
\* the node goes right after the selected block and the cursor into it
SafeInsert(node, tr) ==
    IF tr.sel.kind # "node" THEN tr
    ELSE
      LET i == SelectedIndex(tr)
          pos == PosBefore(tr.doc, i) + NodeSize(tr.doc[i])
      IN  [tr EXCEPT !.doc = InsertAt(tr.doc, i + 1, node),
              !.sel = TextSelection(pos + 1),
              !.steps = Append(@, [op |-> "insert", from |-> pos, to |-> pos])]

\* The transactions plugins append to a dispatch: "meta" changes no document,
\* "appendParagraph" adds an empty paragraph at the end of the document.
AppendedKinds == {"meta", "appendParagraph"}

AppendedTr(state, kind) ==
    IF kind = "meta" THEN StateTr(state)
    ELSE [StateTr(state) EXCEPT
             !.doc = Append(state.doc, EmptyParagraph),
             !.steps = <<[op |-> "insert", from |-> DocSize(state.doc),
                          to |-> DocSize(state.doc)]>>]

StateOf(tr) == [doc |-> tr.doc, sel |-> tr.sel]

\* view.state.applyTransaction(transaction).transactions: the root transaction
\* followed by those the plugins append
RECURSIVE ApplyTransaction(_, _)
ApplyTransaction(root, appended) ==
    IF appended = <<>> THEN <<root>>
    ELSE LET trs == ApplyTransaction(root, SubSeq(appended, 1, Len(appended) - 1))
         IN  Append(trs, AppendedTr(StateOf(trs[Len(trs)]), appended[Len(appended)]))

\* the appended transactions a dispatch of root may get, within MaxDoc
AppendedFor(root) ==
    {a \in SeqsUpTo(AppendedKinds, MaxAppended) :
        Len(root.doc) + Cardinality({i \in 1..Len(a) : a[i] = "appendParagraph"})
            <= MaxDoc}

\* Mutant: only the dispatched transaction's docChanged is looked at.
HandleChangeCallsRootOnly(transactions) ==
    IF DocChanged(transactions[1]) THEN 1 ELSE 0

\* transactions.some(tr => tr.docChanged) ? one call of handleChange : none
HandleChangeCalls(transactions) ==
    IF \E i \in 1..Len(transactions) : DocChanged(transactions[i]) THEN 1 ELSE 0

\* handleChange(): calls of props.onChange
OnChangeCalls(readOnlyNow) == IF ~readOnlyNow THEN 1 ELSE 0

\* dispatchTransaction(transaction): the new view state and what was called
DispatchTransaction(root, appended, readOnlyNow) ==
    LET trs == ApplyTransaction(root, appended)
        handled == HandleChangeCalls(trs)
    IN  [state |-> StateOf(trs[Len(trs)]),
         changed |-> [i \in 1..Len(trs) |-> DocChanged(trs[i])],
         handled |-> handled,
         notified |-> handled * OnChangeCalls(readOnlyNow)]

Outcome(d) == [changed |-> d.changed, handled |-> d.handled, notified |-> d.notified]

\* focusAtStart / focusAtEnd: the transaction they dispatch
FocusTr(state, atEnd) ==
    SetSelection(StateTr(state), IF atEnd THEN AtEnd(state.doc) ELSE AtStart(state.doc))

\* the rest of componentDidMount after init(): focusAtEnd when editable and
\* autoFocus is set
DidMountTail ==
    /\ pc = Len(InitOrder) + 1
    /\ pc' = pc + 1
    /\ IF ~props.readOnly /\ props.autoFocus
       THEN \E a \in AppendedFor(FocusTr(viewState, TRUE)) :
              LET d == DispatchTransaction(FocusTr(viewState, TRUE), a, props.readOnly)
              IN  /\ viewState' = d.state
                  /\ focused' = TRUE
                  /\ last' = [NoOp EXCEPT !.op = "mount", !.dispatches = <<Outcome(d)>>, !.focus = TRUE]
       ELSE /\ last' = [NoOp EXCEPT !.op = "mount"]
            /\ UNCHANGED <<viewState, focused>>
    /\ UNCHANGED <<props, fields, observedUnset, viewEditable, headings>>
    /\ UNCHANGED <<varsC, varsI>>

\* the public methods focusAtStart and focusAtEnd
FocusAt(atEnd) ==
    /\ Mounted
    /\ \E a \in AppendedFor(FocusTr(viewState, atEnd)) :
         LET d == DispatchTransaction(FocusTr(viewState, atEnd), a, props.readOnly)
         IN  /\ viewState' = d.state
             /\ last' = [NoOp EXCEPT !.op = "focusAt", !.dispatches = <<Outcome(d)>>, !.focus = TRUE]
    /\ focused' = TRUE
    /\ UNCHANGED <<props, fields, pc, observedUnset, viewEditable, headings>>
    /\ UNCHANGED <<varsC, varsI>>

\* index of the block the cursor is in, or of the block after it when the
\* selection sits between two blocks
CursorBlock(state) ==
    LET at == {i \in 1..Len(state.doc) : state.sel.anchor < PosBefore(state.doc, i + 1)}
    IN  IF at = {} THEN Len(state.doc) ELSE CHOOSE i \in at : \A k \in at : i <= k

\* Transactions the toolkit dispatches for the user's editing: the cursor placed
\* in block j, a block inserted after the cursor's block, the cursor's block
\* deleted.
UserTrs(state) ==
    LET c == CursorBlock(state)
    IN  {SetSelection(StateTr(state), TextSelection(PosBefore(state.doc, j) + 1)) :
            j \in 1..Len(state.doc)}
        \cup
        {[StateTr(state) EXCEPT
             !.doc = InsertAt(state.doc, c + 1, node),
             !.sel = TextSelection(PosBefore(state.doc, c + 1) + 1),
             !.steps = <<[op |-> "insert", from |-> PosBefore(state.doc, c + 1),
                          to |-> PosBefore(state.doc, c + 1)]>>] :
            node \in IF Len(state.doc) < MaxDoc
                     THEN {EmptyParagraph, EmbedNode} ELSE {}}
        \cup
        {[StateTr(state) EXCEPT
             !.doc = RemoveAt(state.doc, c),
             !.sel = AtStart(RemoveAt(state.doc, c)),
             !.steps = <<[op |-> "delete", from |-> PosBefore(state.doc, c),
                          to |-> PosBefore(state.doc, c + 1)]>>] :
            k \in IF Len(state.doc) > 1 THEN {c} ELSE {}}

\* view.dispatch(tr) for a transaction of the user's editing
UserDispatch ==
    /\ Mounted
    /\ \E tr \in UserTrs(viewState) : \E a \in AppendedFor(tr) :
         LET d == DispatchTransaction(tr, a, props.readOnly)
         IN  /\ viewState' = d.state
             /\ last' = [NoOp EXCEPT !.op = "dispatch", !.dispatches = <<Outcome(d)>>]
    /\ UNCHANGED <<props, fields, pc, observedUnset, viewEditable, focused, headings>>
    /\ UNCHANGED <<varsC, varsI>>

(***************************************************************************)
(* componentDidUpdate                                                      *)
(***************************************************************************)

\* this.props.value && prevProps.value !== this.props.value
ValueChanged(prevValue, value) == Truthy(value) /\ prevValue # value

\* Mutant: the closure installed answers from prevProps.
DidUpdateEditableStale(prevReadOnly, readOnlyNow) ==
    [live |-> FALSE, val |-> ~prevReadOnly]

\* the editable prop componentDidUpdate installs: () => !this.props.readOnly
DidUpdateEditable(prevReadOnly, readOnlyNow) ==
    [live |-> TRUE, val |-> ~readOnlyNow]

\* new props arrive and componentDidUpdate(prevProps) runs
UpdateProps(new) ==
    /\ Mounted
    /\ new # props
    /\ new.autoFocus = props.autoFocus
    /\ props' = new
    /\ LET prev == props
           replaced == ValueChanged(prev.value, new.value)
           created == IF replaced THEN CreateState(new.value) ELSE NoState
           s1 == IF replaced THEN created ELSE viewState
           refocus == prev.readOnly /\ ~new.readOnly /\ new.autoFocus
       IN  /\ viewEditable' = IF prev.readOnly # new.readOnly
                              THEN DidUpdateEditable(prev.readOnly, new.readOnly)
                              ELSE viewEditable
           /\ IF refocus
              THEN \E a \in AppendedFor(FocusTr(s1, TRUE)) :
                     LET d == DispatchTransaction(FocusTr(s1, TRUE), a, new.readOnly)
                     IN  /\ viewState' = d.state
                         /\ focused' = TRUE
                         /\ last' = [NoOp EXCEPT !.op = "update", !.prev = prev, !.updated = replaced,
                                        !.created = created, !.dispatches = <<Outcome(d)>>,
                                        !.focus = TRUE]
              ELSE /\ viewState' = s1
                   /\ last' = [NoOp EXCEPT !.op = "update", !.prev = prev, !.updated = replaced,
                                  !.created = created]
                   /\ UNCHANGED focused
    /\ UNCHANGED <<fields, pc, observedUnset, headings>>
    /\ UNCHANGED <<varsC, varsI>>

(***************************************************************************)
(* Embed: key-up on the embed's node view                                  *)
(***************************************************************************)

Keys == {"Delete", "Backspace", "Enter", "a"}

\* view.posAtDOM(element, 0): the position inside the embed's node
PosAtDOM(doc, i) == PosBefore(doc, i) + 1

\* parentSelection(element): a node selection of the block around that position
ParentSelection(doc, i) ==
    NodeSelection(PosBefore(doc, BlockIndexAt(doc, PosAtDOM(doc, i))))

\* removeEmbed(element): the transaction it dispatches
RemoveEmbed(state, i) ==
    DeleteSelection(SetSelection(StateTr(state), ParentSelection(state.doc, i)))

\* Mutant: the selection is put at the embed's anchor, not after the embed.
InsertParagraphAfterAtAnchor(state, i) ==
    LET parent == ParentSelection(state.doc, i)
        tr == SafeInsert(EmptyParagraph, SetSelection(StateTr(state), parent))
    IN  SetSelection(tr, TextSelection(parent.anchor))

\* insertParagraphAfter(element): the transaction it dispatches
InsertParagraphAfter(state, i) ==
    LET parent == ParentSelection(state.doc, i)
        node == state.doc[BlockIndexAt(state.doc, PosAtDOM(state.doc, i))]
        tr == SafeInsert(EmptyParagraph, SetSelection(StateTr(state), parent))
    IN  SetSelection(tr, TextSelection(parent.anchor + NodeSize(node)))

\* the onKeyUp handler of the embed component: the transactions it dispatches
\* and whether it focuses the view
OnKeyUp(state, i, key) ==
    [trs |-> (IF key = "Delete" \/ key = "Backspace"
              THEN <<RemoveEmbed(state, i)>> ELSE <<>>)
             \o (IF key = "Enter" THEN <<InsertParagraphAfter(state, i)>> ELSE <<>>),
     focus |-> key = "Enter"]

EmbedKeyUp(i, key) ==
    /\ Mounted
    /\ i \in 1..Len(viewState.doc)
    /\ viewState.doc[i].type = "embed"
    /\ key = "Enter" => Len(viewState.doc) < MaxDoc
    /\ LET h == OnKeyUp(viewState, i, key)
       IN  IF h.trs = <<>>
           THEN /\ last' = [NoOp EXCEPT !.op = "keyup", !.key = key, !.index = i,
                               !.focus = h.focus]
                /\ focused' = (focused \/ h.focus)
                /\ UNCHANGED viewState
           ELSE \E a \in AppendedFor(h.trs[1]) :
                  LET d == DispatchTransaction(h.trs[1], a, props.readOnly)
                  IN  /\ viewState' = d.state
                      /\ focused' = (focused \/ h.focus)
                      /\ last' = [NoOp EXCEPT !.op = "keyup", !.key = key,
                                     !.index = i, !.tr = h.trs[1],
                                     !.dispatches = <<Outcome(d)>>,
                                     !.focus = h.focus]
    /\ UNCHANGED <<props, fields, pc, observedUnset, viewEditable, headings>>
    /\ UNCHANGED <<varsC, varsI>>

(***************************************************************************)
(* Image: the upload plugin's paste and drop handlers                      *)
(***************************************************************************)

\* Mutant: the handlers do not ask whether the view is editable.
NeverNotEditable(editableResult) == FALSE

\* view.props.editable && !view.props.editable(view.state)
NotEditable(editableResult) == ~editableResult

\* handleDOMEvents.paste: the value returned and the calls of insertFiles
PasteHandler(editableResult, hasClipboard, nFiles) ==
    IF NotEditable(editableResult) THEN [ret |-> "false", inserted |-> 0]
    ELSE IF ~hasClipboard THEN [ret |-> "false", inserted |-> 0]
    ELSE IF nFiles = 0 THEN [ret |-> "false", inserted |-> 0]
    ELSE [ret |-> "true", inserted |-> 1]

\* handleDOMEvents.drop: the value returned and the calls of insertFiles
DropHandler(editableResult, nFiles, posFound) ==
    IF NotEditable(editableResult) THEN [ret |-> "false", inserted |-> 0]
    ELSE IF nFiles = 0 THEN [ret |-> "false", inserted |-> 0]
    ELSE IF posFound THEN [ret |-> "true", inserted |-> 1]
    ELSE [ret |-> "false", inserted |-> 0]

Paste(hasClipboard, nFiles) ==
    /\ Mounted
    /\ LET r == PasteHandler(Editable, hasClipboard, nFiles)
       IN  last' = [NoOp EXCEPT !.op = "paste", !.index = nFiles, !.ret = r.ret, !.inserted = r.inserted]
    /\ UNCHANGED <<props, fields, pc, observedUnset, viewState, viewEditable,
                   focused, headings>>
    /\ UNCHANGED <<varsC, varsI>>

Drop(nFiles, posFound) ==
    /\ Mounted
    /\ LET r == DropHandler(Editable, nFiles, posFound)
       IN  last' = [NoOp EXCEPT !.op = "drop", !.index = nFiles, !.ret = r.ret, !.inserted = r.inserted]
    /\ UNCHANGED <<props, fields, pc, observedUnset, viewState, viewEditable,
                   focused, headings>>
    /\ UNCHANGED <<varsC, varsI>>

NextEditor ==
    \/ InitStep
    \/ DidMountTail
    \/ \E new \in [value : PropValues, readOnly : BOOLEAN, autoFocus : BOOLEAN] :
         UpdateProps(new)
    \/ UserDispatch
    \/ \E atEnd \in BOOLEAN : FocusAt(atEnd)
    \/ \E i \in 1..MaxDoc, key \in Keys : EmbedKeyUp(i, key)
    \/ \E c \in BOOLEAN, n \in 0..MaxFiles : (c \/ n = 0) /\ Paste(c, n)
    \/ \E n \in 0..MaxFiles, f \in BOOLEAN : Drop(n, f)

(***************************************************************************)
(* getHeadings                                                             *)
(***************************************************************************)

\* Bound on the number of blocks of the documents getHeadings is run on.
MaxHeadings == 3

Lower(c) == IF c = "A" THEN "a" ELSE c

\* safeSlugify(text): "h-" and the lower-cased text
SafeSlugify(text) == <<"h", "-">> \o [i \in 1..Len(text) |-> Lower(text[i])]

\* headingToSlug(node, index = 0): the slug, with "-index" after it when index > 0
HeadingToSlug(node, index) ==
    IF index = 0 THEN SafeSlugify(node.text)
    ELSE SafeSlugify(node.text) \o <<"-", ToString(index)>>

\* previouslySeen[slug], 0 standing for undefined
Seen(previouslySeen, slug) ==
    IF slug \in DOMAIN previouslySeen THEN previouslySeen[slug] ELSE 0

\* the body of doc.forEach in getHeadings, from block i on
RECURSIVE GetHeadingsFrom(_, _, _, _)
GetHeadingsFrom(doc, i, previouslySeen, acc) ==
    IF i > Len(doc) THEN acc
    ELSE IF doc[i].type # "heading"
    THEN GetHeadingsFrom(doc, i + 1, previouslySeen, acc)
    ELSE
      LET slug == HeadingToSlug(doc[i], 0)
          n == Seen(previouslySeen, slug)
          id == IF n > 0 THEN HeadingToSlug(doc[i], n) ELSE slug
          seen2 == [s \in DOMAIN previouslySeen \cup {slug} |->
                       IF s = slug THEN n + 1 ELSE previouslySeen[s]]
      IN  GetHeadingsFrom(doc, i + 1, seen2,
                          Append(acc, [title |-> doc[i].text, id |-> id]))

\* getHeadings()
GetHeadingsOf(doc) == GetHeadingsFrom(doc, 1, <<>>, <<>>)

GetHeadings ==
    /\ Mounted
    /\ headings' = GetHeadingsOf(viewState.doc)
    /\ last' = [NoOp EXCEPT !.op = "getHeadings"]
    /\ UNCHANGED <<props, fields, pc, observedUnset, viewState, viewEditable, focused>>
    /\ UNCHANGED <<varsC, varsI>>

HeadingBlocks ==
    {EmptyParagraph, HeadingNode(<<"a">>), HeadingNode(<<"A">>),
     HeadingNode(<<"a", "-", "1">>)}

\* a mounted editor whose document is any of the bounded documents
InitHeadings ==
    /\ props = NoProps
    /\ fields = {"element"} \cup {Assigns(InitOrder[k]) : k \in 1..Len(InitOrder)}
    /\ pc = Len(InitOrder) + 2
    /\ observedUnset = {}
    /\ \E doc \in SeqsUpTo(HeadingBlocks, MaxHeadings) \ {<<>>} :
         viewState = [doc |-> doc, sel |-> AtStart(doc)]
    /\ viewEditable = CreateViewEditable(FALSE)
    /\ focused = FALSE
    /\ last = NoOp
    /\ headings = <<>>

(***************************************************************************)
(* Image: toMarkdown and parseMarkdown                                     *)
(***************************************************************************)

\* Bounds on the lengths of an image's alt and src.
MaxAlt == 2
MaxSrc == 2

AltChars == {"a", "b", "\n"}
SrcChars == {"u", "*"}

\* An alt attribute: a string or null.
NullAlt == [null |-> TRUE, chars |-> <<>>]
AltOf(chars) == [null |-> FALSE, chars |-> chars]

\* String.prototype.replace("\n", ""): the first line break is removed
RECURSIVE ReplaceFirstNewline(_)
ReplaceFirstNewline(chars) ==
    IF chars = <<>> THEN <<>>
    ELSE IF Head(chars) = "\n" THEN Tail(chars)
    ELSE <<Head(chars)>> \o ReplaceFirstNewline(Tail(chars))

\* the characters esc puts a backslash before ("backtick" stands for the backtick)
EscChars == {"backtick", "*", "\\", "~", "[", "]"}

\* state.esc(str): a backslash before each character markdown gives a meaning
RECURSIVE Esc(_)
Esc(chars) ==
    IF chars = <<>> THEN <<>>
    ELSE (IF Head(chars) \in EscChars THEN <<"\\", Head(chars)>> ELSE <<Head(chars)>>)
         \o Esc(Tail(chars))

\* toMarkdown(state, node): the text written
ToMarkdown(node) ==
    <<"!", "[">>
    \o Esc(ReplaceFirstNewline(IF node.alt.null THEN <<>> ELSE node.alt.chars))
    \o <<"]", "(">> \o Esc(node.src) \o <<")">>

\* first position from k on that holds the character stop outside an escape
RECURSIVE ScanTo(_, _, _)
ScanTo(text, k, stop) ==
    IF k > Len(text) THEN k
    ELSE IF text[k] = "\\" THEN ScanTo(text, k + 2, stop)
    ELSE IF text[k] = stop THEN k
    ELSE ScanTo(text, k + 1, stop)

\* backslash escapes resolved
RECURSIVE Unescape(_)
Unescape(chars) ==
    IF chars = <<>> THEN <<>>
    ELSE IF Head(chars) = "\\" /\ Len(chars) > 1
    THEN <<chars[2]>> \o Unescape(SubSeq(chars, 3, Len(chars)))
    ELSE <<Head(chars)>> \o Unescape(Tail(chars))

\* the content of the first inline token of the image's label: the text up to the
\* first line break; no token, or a line break first, has no content
FirstChildContent(label) ==
    Unescape(SubSeq(label, 1, ScanTo(label, 1, "\n") - 1))

\* the markdown parser on the text of one image, then parseMarkdown's getAttrs:
\* src is the link destination, alt the first child's content or null
ParseMarkdown(text) ==
    LET close == ScanTo(text, 3, "]")
        label == SubSeq(text, 3, close - 1)
        end == ScanTo(text, close + 2, ")")
        dest == SubSeq(text, close + 2, end - 1)
        content == FirstChildContent(label)
    IN  [src |-> Unescape(dest),
         alt |-> IF content = <<>> THEN NullAlt ELSE AltOf(content)]

InitImage ==
    /\ imgPhase = "node"
    /\ imgNode \in [src : SeqsUpTo(SrcChars, MaxSrc) \ {<<>>},
                    alt : {NullAlt} \cup {AltOf(c) : c \in SeqsUpTo(AltChars, MaxAlt)}]
    /\ imgText = <<>>
    /\ imgParsed = [src |-> <<>>, alt |-> NullAlt]

IdleI ==
    /\ imgPhase = "node"
    /\ imgNode = [src |-> <<"u">>, alt |-> NullAlt]
    /\ imgText = <<>>
    /\ imgParsed = [src |-> <<>>, alt |-> NullAlt]

\* the serializer writes the image
WriteImage ==
    /\ imgPhase = "node"
    /\ imgText' = ToMarkdown(imgNode)
    /\ imgPhase' = "written"
    /\ UNCHANGED <<imgNode, imgParsed>>
    /\ UNCHANGED <<varsC, varsE>>

\* the parser reads the text back
ReadImage ==
    /\ imgPhase = "written"
    /\ imgParsed' = ParseMarkdown(imgText)
    /\ imgPhase' = "parsed"
    /\ UNCHANGED <<imgNode, imgText>>
    /\ UNCHANGED <<varsC, varsE>>

NextImage == WriteImage \/ ReadImage

NextHeadings == GetHeadings


\* The click-outside detector from its first render on.
IdleE ==
    /\ props = NoProps
    /\ fields = {"element"}
    /\ pc = 1
    /\ observedUnset = {}
    /\ viewState = NoState
    /\ viewEditable = NoClosure
    /\ focused = FALSE
    /\ last = NoOp
    /\ headings = <<>>

InitClick == InitC /\ IdleE /\ IdleI

SpecClick == InitClick /\ [][NextClick]_vars

Init == InitE /\ InitC /\ IdleI

\* The editor from construction on.
Spec == Init /\ [][NextEditor]_vars

\* getHeadings on a mounted editor.
InitGetHeadings == InitHeadings /\ InitC /\ IdleI

SpecHeadings == InitGetHeadings /\ [][NextHeadings]_vars

\* An image node written to markdown and parsed back.
InitRoundTrip == InitImage /\ InitC /\ IdleE

SpecImage == InitRoundTrip /\ [][NextImage]_vars

(***************************************************************************)
(* Claims                                                                  *)
(***************************************************************************)

\* C1: every dispatch runs handleChange exactly once when at least one of the
\* transactions it applied changed the document, and not at all when none did.
C1_HandleChangeOncePerChangingDispatch ==
    \A k \in 1..Len(last.dispatches) :
        LET d == last.dispatches[k]
        IN  d.handled = IF \E i \in 1..Len(d.changed) : d.changed[i] THEN 1 ELSE 0

\* C1 witness: a dispatch whose root transaction changed no document but an
\* appended one did, and handleChange ran once.
C1_Witness ==
    /\ Len(last.dispatches) = 1
    /\ Len(last.dispatches[1].changed) = 2
    /\ ~last.dispatches[1].changed[1]
    /\ last.dispatches[1].changed[2]
    /\ last.dispatches[1].handled = 1

C3_EditableFollowsReadOnly ==
    Mounted => (Editable = ~props.readOnly)

\* C3 witness: readOnly was switched by a props update and editable() follows.
C3_Witness ==
    /\ last.op = "update"
    /\ last.prev.readOnly # props.readOnly
    /\ props.readOnly
    /\ ~Editable

\* C4: no two entries of the list getHeadings returns share an id.
C4_HeadingIdsDistinct ==
    \A i, j \in 1..Len(headings) : i # j => headings[i].id # headings[j].id

\* C5: with the listeners attached, a pointerup outside the element that follows
\* a pointerdown outside the element invokes onClickOutside exactly once.
C5_ClickOutsideInvokedOnce ==
    (clickLast.type = "up" /\ clickLast.heard
        /\ clickLast.target = "outside" /\ clickLast.origin = "outside")
        => clickLast.invoked = 1

\* C5 witness: such a pointerup, after a press inside was heard earlier.
C5_Witness ==
    /\ clickLast.type = "up" /\ clickLast.heard
    /\ clickLast.target = "outside" /\ clickLast.origin = "outside"
    /\ clickLast.invoked = 1
    /\ events >= 4

\* C6: every invocation of onClickOutside is on a pointerup outside the element
\* whose press went down outside the element too.
C6_NoInvocationForPressFromInside ==
    clickLast.invoked > 0
        => (clickLast.target = "outside" /\ clickLast.origin = "outside")

\* C7: the image node read back from the text toMarkdown wrote has the same src
\* and the same alt.
C7_ImageRoundTrip ==
    imgPhase = "parsed"
        => (imgParsed.src = imgNode.src /\ imgParsed.alt = imgNode.alt)

\* position of a step in init()
StepIndex(step) == CHOOSE k \in 1..Len(InitOrder) : InitOrder[k] = step

StepBefore(a, b) == StepIndex(a) < StepIndex(b)

\* C8: no step of init() reads an editor field that no earlier step assigned:
\* extensions come before nodes and marks, these before the schema, the schema
\* before keymaps, parser and input rules, all of plugins, keymaps, parser, input
\* rules and node views before the view, and the command table last.
C8_InitReadsOnlyAssignedFields ==
    /\ observedUnset = {}
    /\ \A s \in {"createNodes", "createMarks"} :
         StepBefore("createExtensions", s) /\ StepBefore(s, "createSchema")
    /\ \A s \in {"createKeymaps", "createParser", "createInputRules"} :
         StepBefore("createSchema", s)
    /\ \A s \in {"createPlugins", "createKeymaps", "createParser",
                  "createInputRules", "createNodeViews"} :
         StepBefore(s, "createView")
    /\ \A k \in 1..Len(InitOrder) :
         InitOrder[k] # "createCommands" => StepBefore(InitOrder[k], "createCommands")

\* C8 witness: init() has run to its end, the command table assigned last.
C8_Witness ==
    /\ pc = Len(InitOrder) + 1
    /\ "commands" \in fields
    /\ viewState.doc # <<>>

\* The outcome of the only dispatch of the last operation.
OneDispatch == Len(last.dispatches) = 1

\* the embed the last key-up was over, in the document before it
KeyUpEmbedPos == PosBefore(last.tr.before, last.index)

\* C9: on key-up over an embed, Delete or Backspace dispatches exactly one
\* transaction, which deletes exactly the embed's node; Enter dispatches exactly
\* one transaction, which inserts an empty paragraph right after the embed, puts a
\* text selection at the position just after the embed and leaves the embed in
\* place, and the view is focused; any other key dispatches nothing.
C9_EmbedKeyUp ==
    last.op = "keyup" =>
        IF last.key \in {"Delete", "Backspace"}
        THEN /\ OneDispatch
             /\ last.tr.before[last.index].type = "embed"
             /\ last.tr.steps = <<[op |-> "delete", from |-> KeyUpEmbedPos,
                                   to |-> KeyUpEmbedPos + NodeSize(EmbedNode)]>>
             /\ \A j \in 1..(last.index - 1) : last.tr.doc[j] = last.tr.before[j]
             /\ \A j \in (last.index + 1)..Len(last.tr.before) :
                    last.tr.doc[j - 1] = last.tr.before[j]
             /\ Len(last.tr.before) > 1 => Len(last.tr.doc) = Len(last.tr.before) - 1
        ELSE IF last.key = "Enter"
        THEN /\ OneDispatch
             /\ Len(last.tr.doc) = Len(last.tr.before) + 1
             /\ \A j \in 1..last.index : last.tr.doc[j] = last.tr.before[j]
             /\ last.tr.doc[last.index].type = "embed"
             /\ last.tr.doc[last.index + 1] = EmptyParagraph
             /\ \A j \in (last.index + 1)..Len(last.tr.before) :
                    last.tr.doc[j + 1] = last.tr.before[j]
             /\ last.tr.sel = TextSelection(KeyUpEmbedPos + NodeSize(EmbedNode))
             /\ last.focus /\ focused
        ELSE /\ last.dispatches = <<>>
             /\ last.tr = NoTr

\* C9 witness: an Enter over an embed dispatched its one transaction, with the
\* empty paragraph after the embed.
C9_Witness ==
    /\ last.op = "keyup"
    /\ last.key = "Enter"
    /\ OneDispatch
    /\ last.tr.doc[last.index + 1] = EmptyParagraph

\* C10: while the view is not editable, the paste and drop handlers return false
\* and never call insertFiles.
C10_NoUploadWhenNotEditable ==
    (last.op \in {"paste", "drop"} /\ ~Editable)
        => (last.ret = "false" /\ last.inserted = 0)

\* C10 witness: a drop carrying a file on a view that is not editable.
C10_Witness ==
    /\ last.op = "drop"
    /\ ~Editable
    /\ last.index > 0
    /\ last.ret = "false"

====
